---- MODULE Spec2Model ----
(***************************************************************************)
(* Model of the ownership / borrowing / slicing snippets of rust_teo:      *)
(* the three space scanners of src/slice.rs (first_word,                   *)
(* first_world_with_slice, first_world_with_slice_str), run one loop       *)
(* iteration per step, and the two straight-line programs slice() and      *)
(* main() that own the strings the scanners borrow.                        *)
(*                                                                         *)
(* Strings are sequences of byte values.  A reference (&str, &String,      *)
(* &mut String) is a view [src, start, len, mut] into the string bound to  *)
(* the variable src.  A reference is kept in refs only while it is live,   *)
(* i.e. until its last use in the program text.                            *)
(***************************************************************************)
EXTENDS Integers, Sequences, FiniteSets, TLC

VARIABLES prog, pc, env, nums, refs, frame, res, panicked

vars == <<prog, pc, env, nums, refs, frame, res, panicked>>

\* ------------------------------------------------------------------ bytes
\* b' ' (slice.rs:88)
Space == 32

\* Bound on the length of the strings handed to the scanners by the driver.
MaxLen == 3

\* The byte values the driver builds its inputs from: the delimiter and two
\* other bytes.
TestBytes == {32, 97, 98}

RECURSIVE SeqsUpTo(_)
SeqsUpTo(n) ==
    IF n = 0 THEN {<<>>}
    ELSE LET shorter == SeqsUpTo(n - 1)
         IN  shorter \cup {Append(t, b) : t \in {u \in shorter : Len(u) = n - 1},
                                          b \in TestBytes}

Inputs == SeqsUpTo(MaxLen)

\* String literals of the sources.
Hello == <<104, 101, 108, 108, 111>>
World == <<119, 111, 114, 108, 100>>
HelloWorld == Hello \o <<32>> \o World
CommaWorld == <<44, 32>> \o World
CommaWorldBang == CommaWorld \o <<33>>
Ahoy == <<97, 104, 111, 121>>
Yours == <<121, 111, 117, 114, 115>>
Array == <<1, 2, 3, 4, 5>>

\* ------------------------------------------------------------------ views
View(src, start, len, mut) == [src |-> src, start |-> start, len |-> len, mut |-> mut]
NoView == View("", 0, 0, FALSE)

\* s.as_bytes(): the bytes a view spans.
as_bytes(v) == SubSeq(env[v.src], v.start + 1, v.start + v.len)

Restrict(f, S) == [x \in S |-> f[x]]

\* --------------------------------------------------------- scanner frames
Scanners == {"first_word", "first_world_with_slice", "first_world_with_slice_str"}

\* The activation record of a scanner: its argument s, the enumerate()
\* counter i, the indices whose byte was read so far (reads), where the
\* result goes (dst) and the result (off for first_word, view otherwise).
NoFrame == [fn |-> "none", arg |-> NoView, i |-> 0, pc |-> "idle", dst |-> "_",
            off |-> 0, view |-> NoView, reads |-> <<>>]

NoRes == [valid |-> FALSE, arg |-> NoView, bytes |-> <<>>, off |-> 0, view |-> NoView]

\* Mutation: the scan resumes after the token the previous call of the same
\* function returned (a tokenizer that keeps its position between calls).
NewFrameResuming(fn, arg, dst) ==
    [NoFrame EXCEPT !.fn = fn, !.arg = arg, !.pc = "loop", !.dst = dst,
                    !.i = IF res[fn].valid
                          THEN IF fn = "first_word" THEN res[fn].off + 1
                               ELSE res[fn].view.len + 1
                          ELSE 0]

\* Entry of a scanner: let bytes = s.as_bytes(); bytes.iter().enumerate()
\* starts at index 0.
NewFrame(fn, arg, dst) == [NoFrame EXCEPT !.fn = fn, !.arg = arg, !.pc = "loop", !.dst = dst]

\* Mutation: return i + 1 (the index after the space) at the first match.
first_word_after_space ==
    /\ frame.fn = "first_word" /\ frame.pc = "loop"
    /\ LET bytes == as_bytes(frame.arg)
       IN  IF frame.i < Len(bytes)
           THEN IF bytes[frame.i + 1] = Space
                THEN frame' = [frame EXCEPT !.pc = "ret", !.off = frame.i + 1,
                                            !.reads = Append(@, frame.i)]
                ELSE frame' = [frame EXCEPT !.i = @ + 1, !.reads = Append(@, frame.i)]
           ELSE frame' = [frame EXCEPT !.pc = "ret", !.off = frame.arg.len]
    /\ UNCHANGED <<prog, pc, env, nums, refs, res, panicked>>

\* Mutation: return 0 instead of s.len() when no space is found.
first_word_zero_when_absent ==
    /\ frame.fn = "first_word" /\ frame.pc = "loop"
    /\ LET bytes == as_bytes(frame.arg)
       IN  IF frame.i < Len(bytes)
           THEN IF bytes[frame.i + 1] = Space
                THEN frame' = [frame EXCEPT !.pc = "ret", !.off = frame.i,
                                            !.reads = Append(@, frame.i)]
                ELSE frame' = [frame EXCEPT !.i = @ + 1, !.reads = Append(@, frame.i)]
           ELSE frame' = [frame EXCEPT !.pc = "ret", !.off = 0]
    /\ UNCHANGED <<prog, pc, env, nums, refs, res, panicked>>

\* Mutation: the loop does not advance past a byte that is not a space.
first_word_not_advancing ==
    /\ frame.fn = "first_word" /\ frame.pc = "loop"
    /\ LET bytes == as_bytes(frame.arg)
       IN  IF frame.i < Len(bytes)
           THEN IF bytes[frame.i + 1] = Space
                THEN frame' = [frame EXCEPT !.pc = "ret", !.off = frame.i,
                                            !.reads = Append(@, frame.i)]
                ELSE frame' = [frame EXCEPT !.reads = Append(@, frame.i)]
           ELSE frame' = [frame EXCEPT !.pc = "ret", !.off = frame.arg.len]
    /\ UNCHANGED <<prog, pc, env, nums, refs, res, panicked>>

\* fn first_word(s: &String) -> usize: one iteration of the for loop, or the
\* tail expression s.len() once the iterator is exhausted.
first_word ==
    /\ frame.fn = "first_word" /\ frame.pc = "loop"
    /\ LET bytes == as_bytes(frame.arg)
       IN  IF frame.i < Len(bytes)
           THEN IF bytes[frame.i + 1] = Space
                THEN frame' = [frame EXCEPT !.pc = "ret", !.off = frame.i,
                                            !.reads = Append(@, frame.i)]
                ELSE frame' = [frame EXCEPT !.i = @ + 1, !.reads = Append(@, frame.i)]
           ELSE frame' = [frame EXCEPT !.pc = "ret", !.off = frame.arg.len]
    /\ UNCHANGED <<prog, pc, env, nums, refs, res, panicked>>

\* Mutation: return &s[0..=i], the token with the space after it.
first_world_with_slice_inclusive ==
    /\ frame.fn = "first_world_with_slice" /\ frame.pc = "loop"
    /\ LET bytes == as_bytes(frame.arg)
       IN  IF frame.i < Len(bytes)
           THEN IF bytes[frame.i + 1] = Space
                THEN frame' = [frame EXCEPT !.pc = "ret", !.reads = Append(@, frame.i),
                                  !.view = View(frame.arg.src, frame.arg.start + 0,
                                                frame.i + 1 - 0, FALSE)]
                ELSE frame' = [frame EXCEPT !.i = @ + 1, !.reads = Append(@, frame.i)]
           ELSE frame' = [frame EXCEPT !.pc = "ret",
                             !.view = View(frame.arg.src, frame.arg.start,
                                           frame.arg.len, FALSE)]
    /\ UNCHANGED <<prog, pc, env, nums, refs, res, panicked>>

\* fn first_world_with_slice(s: &String) -> &str: return &s[0..i] at the
\* first space, &s[..] when there is none.
first_world_with_slice ==
    /\ frame.fn = "first_world_with_slice" /\ frame.pc = "loop"
    /\ LET bytes == as_bytes(frame.arg)
       IN  IF frame.i < Len(bytes)
           THEN IF bytes[frame.i + 1] = Space
                THEN frame' = [frame EXCEPT !.pc = "ret", !.reads = Append(@, frame.i),
                                  !.view = View(frame.arg.src, frame.arg.start + 0,
                                                frame.i - 0, FALSE)]
                ELSE frame' = [frame EXCEPT !.i = @ + 1, !.reads = Append(@, frame.i)]
           ELSE frame' = [frame EXCEPT !.pc = "ret",
                             !.view = View(frame.arg.src, frame.arg.start,
                                           frame.arg.len, FALSE)]
    /\ UNCHANGED <<prog, pc, env, nums, refs, res, panicked>>

\* Mutation: the scan overwrites the space it finds with a 0 byte, as a
\* destructive tokenizer does.
first_world_with_slice_str_destructive ==
    /\ frame.fn = "first_world_with_slice_str" /\ frame.pc = "loop"
    /\ LET bytes == as_bytes(frame.arg)
       IN  IF frame.i < Len(bytes)
           THEN IF bytes[frame.i + 1] = Space
                THEN /\ frame' = [frame EXCEPT !.pc = "ret", !.reads = Append(@, frame.i),
                                     !.view = View(frame.arg.src, frame.arg.start + 0,
                                                   frame.i - 0, FALSE)]
                     /\ env' = [env EXCEPT ![frame.arg.src][frame.arg.start + frame.i + 1] = 0]
                ELSE /\ frame' = [frame EXCEPT !.i = @ + 1, !.reads = Append(@, frame.i)]
                     /\ UNCHANGED env
           ELSE /\ frame' = [frame EXCEPT !.pc = "ret",
                                !.view = View(frame.arg.src, frame.arg.start,
                                              frame.arg.len, FALSE)]
                /\ UNCHANGED env
    /\ UNCHANGED <<prog, pc, nums, refs, res, panicked>>

\* Mutation: return the empty slice &s[0..0] when no space is found.
first_world_with_slice_str_empty_when_absent ==
    /\ frame.fn = "first_world_with_slice_str" /\ frame.pc = "loop"
    /\ LET bytes == as_bytes(frame.arg)
       IN  IF frame.i < Len(bytes)
           THEN IF bytes[frame.i + 1] = Space
                THEN frame' = [frame EXCEPT !.pc = "ret", !.reads = Append(@, frame.i),
                                  !.view = View(frame.arg.src, frame.arg.start + 0,
                                                frame.i - 0, FALSE)]
                ELSE frame' = [frame EXCEPT !.i = @ + 1, !.reads = Append(@, frame.i)]
           ELSE frame' = [frame EXCEPT !.pc = "ret",
                             !.view = View(frame.arg.src, frame.arg.start, 0, FALSE)]
    /\ UNCHANGED <<prog, pc, env, nums, refs, res, panicked>>

\* Mutation: the scan does not stop at the first space; the slice returned
\* ends at the last one.
first_world_with_slice_str_last_space ==
    /\ frame.fn = "first_world_with_slice_str" /\ frame.pc = "loop"
    /\ LET bytes == as_bytes(frame.arg)
       IN  IF frame.i < Len(bytes)
           THEN IF bytes[frame.i + 1] = Space
                THEN frame' = [frame EXCEPT !.i = @ + 1, !.reads = Append(@, frame.i),
                                  !.off = 1,
                                  !.view = View(frame.arg.src, frame.arg.start + 0,
                                                frame.i - 0, FALSE)]
                ELSE frame' = [frame EXCEPT !.i = @ + 1, !.reads = Append(@, frame.i)]
           ELSE frame' = [frame EXCEPT !.pc = "ret",
                             !.view = IF frame.off = 1 THEN frame.view
                                      ELSE View(frame.arg.src, frame.arg.start,
                                                frame.arg.len, FALSE)]
    /\ UNCHANGED <<prog, pc, env, nums, refs, res, panicked>>

\* fn first_world_with_slice_str(s: &str) -> &str: the same scan over a
\* string slice.
first_world_with_slice_str ==
    /\ frame.fn = "first_world_with_slice_str" /\ frame.pc = "loop"
    /\ LET bytes == as_bytes(frame.arg)
       IN  IF frame.i < Len(bytes)
           THEN IF bytes[frame.i + 1] = Space
                THEN frame' = [frame EXCEPT !.pc = "ret", !.reads = Append(@, frame.i),
                                  !.view = View(frame.arg.src, frame.arg.start + 0,
                                                frame.i - 0, FALSE)]
                ELSE frame' = [frame EXCEPT !.i = @ + 1, !.reads = Append(@, frame.i)]
           ELSE frame' = [frame EXCEPT !.pc = "ret",
                             !.view = View(frame.arg.src, frame.arg.start,
                                           frame.arg.len, FALSE)]
    /\ UNCHANGED <<prog, pc, env, nums, refs, res, panicked>>

\* The record kept of a completed call: its argument, the bytes the argument
\* spanned when the call was made, and what it returned.
Completed(f) == [valid |-> TRUE, arg |-> f.arg, bytes |-> as_bytes(f.arg),
                 off |-> f.off, view |-> f.view]

\* ------------------------------------------------------------- statements
\* A statement of slice() or main(): its source line, what it does, and the
\* names it reads (uses) -- a reference is live until its last use.
Stmt(line, op) == [line |-> line, op |-> op, var |-> "", dst |-> "_", lit |-> <<>>,
                   lo |-> 0, hi |-> 0, hiKind |-> "end", hiVar |-> "", fn |-> "",
                   mut |-> FALSE, decl |-> TRUE, n |-> 0, uses |-> {}]

\* let var = String::from(lit), let var = "lit", let var = [..]
From(line, var, lit) == [Stmt(line, "from") EXCEPT !.var = var, !.lit = lit]
\* var = String::from(lit): assignment to an existing binding
Assign(line, var, lit) == [From(line, var, lit) EXCEPT !.decl = FALSE]
\* var.clear()
ClearStmt(line, var) == [Stmt(line, "clear") EXCEPT !.var = var]
\* var.push_str(lit)
PushStrStmt(line, var, lit) == [Stmt(line, "push_str") EXCEPT !.var = var, !.lit = lit]
\* let dst = &var[lo..hi]
Index(line, dst, var, lo, hi) ==
    [Stmt(line, "index") EXCEPT !.dst = dst, !.var = var, !.lo = lo, !.hi = hi,
                                !.hiKind = "lit", !.uses = {var}]
\* let dst = &var[lo..]
IndexEnd(line, dst, var, lo) ==
    [Stmt(line, "index") EXCEPT !.dst = dst, !.var = var, !.lo = lo, !.uses = {var}]
\* let dst = &var[lo..hiVar]
IndexVar(line, dst, var, lo, hiVar) ==
    [Stmt(line, "index") EXCEPT !.dst = dst, !.var = var, !.lo = lo, !.hiKind = "var",
                                !.hiVar = hiVar, !.uses = {var, hiVar}]
\* let dst = &var   /   let dst = &mut var
Ref(line, dst, var, mut) == [IndexEnd(line, dst, var, 0) EXCEPT !.mut = mut]
\* let dst = var.len()   /   let dst = calculate_length_ref(&var)
LenStmt(line, dst, var, fn) ==
    [Stmt(line, "len") EXCEPT !.dst = dst, !.var = var, !.fn = fn, !.uses = {var}]
\* let dst = fn(&var[lo..hi])
Call(line, dst, fn, var, lo, hi) ==
    [Stmt(line, "call") EXCEPT !.dst = dst, !.fn = fn, !.var = var, !.lo = lo,
                               !.hi = hi, !.hiKind = "lit", !.uses = {var}]
\* let dst = fn(&var)   /   fn(&var[..])   /   fn(var) for a &str variable
CallWhole(line, dst, fn, var) ==
    [Stmt(line, "call") EXCEPT !.dst = dst, !.fn = fn, !.var = var, !.uses = {var}]
\* println!(.., uses)
PrintStmt(line, uses) == [Stmt(line, "print") EXCEPT !.uses = uses]
\* let dst = var   /   let dst = fn(var)   /   let (dst, len) = fn(var)
Move(line, dst, var, fn) ==
    [Stmt(line, "move") EXCEPT !.dst = dst, !.var = var, !.fn = fn, !.uses = {var}]
\* let dst = var.clone()
Clone(line, dst, var) ==
    [Stmt(line, "clone") EXCEPT !.dst = dst, !.var = var, !.uses = {var}]
\* takes_ownership(var)
Take(line, var) == [Stmt(line, "take") EXCEPT !.var = var, !.uses = {var}]
\* let var = n
IntStmt(line, var, n) == [Stmt(line, "int") EXCEPT !.var = var, !.n = n]
\* let dst = var for an integer   /   makes_copy(var)
Copy(line, dst, var) ==
    [Stmt(line, "copy") EXCEPT !.dst = dst, !.var = var, !.uses = {var}]
\* change(&mut var)
ChangeStmt(line, var) == [Stmt(line, "change") EXCEPT !.var = var, !.uses = {var}]
\* } : var goes out of scope
EndScope(line, var) == [Stmt(line, "end_scope") EXCEPT !.var = var]
\* assert_eq!(var, &lit)
AssertEq(line, var, lit) ==
    [Stmt(line, "assert_eq") EXCEPT !.var = var, !.lit = lit, !.uses = {var}]

\* --------------------------------------------------------------- slice()
\* Mutation: the index is computed again after the string is cleared.
sliceIndexDemoRecomputed == <<
    From(4, "s", HelloWorld),
    CallWhole(6, "word", "first_word", "s"),
    ClearStmt(8, "s"),
    CallWhole(8, "word", "first_word", "s"),
    PrintStmt(12, {"word"}) >>

\* slice.rs:4-12: the index returned by first_word outlives the string.
sliceIndexDemo == <<
    From(4, "s", HelloWorld),
    CallWhole(6, "word", "first_word", "s"),
    ClearStmt(8, "s"),
    PrintStmt(12, {"word"}) >>

\* slice.rs:21-43: string slices and the range syntax.
sliceStrings == <<
    From(21, "s", HelloWorld),
    Index(22, "hello", "s", 0, 5),
    Index(23, "world", "s", 6, 11),
    PrintStmt(24, {"hello", "world"}),
    From(28, "s", Hello),
    Index(29, "slice", "s", 0, 2),
    PrintStmt(30, {"slice", "s"}),
    Index(31, "slice", "s", 0, 2),
    PrintStmt(32, {"slice"}),
    LenStmt(34, "len", "s", "len"),
    IndexVar(35, "slice", "s", 3, "len"),
    PrintStmt(36, {"slice"}),
    IndexEnd(37, "slice", "s", 3),
    PrintStmt(38, {"slice"}),
    IndexVar(40, "slice", "s", 0, "len"),
    PrintStmt(41, {"slice"}),
    IndexEnd(42, "slice", "s", 0),
    PrintStmt(43, {"slice"}) >>

\* Mutation: the slice returned by first_world_with_slice is kept and
\* printed after s is cleared.
sliceFnDemoViewKept == <<
    From(45, "s", HelloWorld),
    CallWhole(47, "word", "first_world_with_slice", "s"),
    ClearStmt(49, "s"),
    PrintStmt(50, {"word"}) >>

\* slice.rs:45-50: the slice returned by first_world_with_slice is dropped
\* before s is cleared.
sliceFnDemo == <<
    From(45, "s", HelloWorld),
    CallWhole(47, "_", "first_world_with_slice", "s"),
    ClearStmt(49, "s"),
    PrintStmt(50, {"s"}) >>

\* slice.rs:53-74: first_world_with_slice_str on slices of a String and of
\* a string literal.
sliceStrDemo == <<
    From(53, "my_string", HelloWorld),
    Call(56, "word", "first_world_with_slice_str", "my_string", 0, 6),
    PrintStmt(57, {"word"}),
    CallWhole(58, "word", "first_world_with_slice_str", "my_string"),
    PrintStmt(59, {"word"}),
    CallWhole(62, "word", "first_world_with_slice_str", "my_string"),
    PrintStmt(63, {"word"}),
    From(64, "my_string_literal", HelloWorld),
    Call(67, "word", "first_world_with_slice_str", "my_string_literal", 0, 5),
    PrintStmt(68, {"word"}),
    CallWhole(69, "word", "first_world_with_slice_str", "my_string_literal"),
    PrintStmt(70, {"word"}),
    CallWhole(73, "word", "first_world_with_slice_str", "my_string_literal"),
    PrintStmt(74, {"word"}) >>

\* slice.rs:77-79: a slice of an array.
sliceArrayDemo == <<
    From(77, "a", Array),
    Index(78, "slice", "a", 1, 3),
    AssertEq(79, "slice", <<2, 3>>) >>

\* pub fn slice()
slice == sliceIndexDemo \o sliceStrings \o sliceFnDemo \o sliceStrDemo \o sliceArrayDemo

\* ---------------------------------------------------------------- main()
\* The helper functions of main.rs.
gives_ownership == Yours
takes_and_gives_back(a_string) == a_string
calculate_length(some_string) == <<some_string, Len(some_string)>>
calculate_length_ref(s) == Len(s)
change(some_string) == some_string \o CommaWorld
no_dangle == Hello

\* main.rs:2-79: scopes, moves, clones, ownership across calls.
mainOwnership == <<
    From(3, "s", Hello), PrintStmt(4, {"s"}), EndScope(6, "s"),
    From(9, "s", Hello), PushStrStmt(11, "s", CommaWorldBang), PrintStmt(12, {"s"}),
    IntStmt(15, "x", 5), Copy(16, "y", "x"), PrintStmt(17, {"x", "y"}),
    From(23, "s1", Hello), Move(24, "s2", "s1", ""), PrintStmt(25, {"s2"}),
    From(31, "s", Hello), PrintStmt(32, {"s"}), Assign(33, "s", Ahoy), PrintStmt(34, {"s"}),
    From(38, "s1", Hello), Clone(39, "s2", "s1"), PrintStmt(40, {"s1", "s2"}),
    IntStmt(42, "x", 5), Copy(43, "y", "x"), PrintStmt(44, {"x", "y"}),
    From(48, "s", Hello), Take(50, "s"),
    IntStmt(53, "x", 5), Copy(55, "_", "x"),
    From(60, "s1", gives_ownership),
    From(63, "s2", Hello), Move(65, "s3", "s2", "takes_and_gives_back"),
    PrintStmt(68, {"s1", "s3"}),
    From(72, "s1", Hello), Move(73, "s2", "s1", "calculate_length"),
    PrintStmt(74, {"s2", "len"}),
    From(77, "s1", Hello), LenStmt(78, "len", "s1", "calculate_length_ref"),
    PrintStmt(79, {"s1", "len"}) >>

\* main.rs:86-120: mutable and shared references.
mainReferences == <<
    From(87, "s", Hello), ChangeStmt(88, "s"),
    From(91, "s", Hello), Ref(92, "r1", "s", TRUE), PrintStmt(95, {"r1"}),
    From(98, "s", Hello), Ref(100, "r1", "s", TRUE), PrintStmt(101, {"r1"}),
    Ref(103, "r2", "s", TRUE), PrintStmt(104, {"r2"}),
    From(107, "s", Hello), Ref(108, "r1", "s", FALSE), Ref(109, "r2", "s", FALSE),
    PrintStmt(110, {"r1", "r2"}), Ref(111, "r3", "s", TRUE), PrintStmt(114, {"r3"}),
    From(119, "reference_to_nothing", no_dangle), PrintStmt(120, {"reference_to_nothing"}) >>

\* fn main()
main == mainOwnership \o mainReferences

\* ------------------------------------------------------------ interpreter
Program == IF prog = "slice" THEN slice ELSE IF prog = "main" THEN main ELSE <<>>

\* The caller is about to execute a statement.
Running == prog # "test" /\ pc <= Len(Program) /\ frame = NoFrame /\ ~panicked
Cur == Program[pc]
At(op) == Running /\ Cur.op = op

\* The statement binds the reference name n anew.
Binds(st, n) == st.op \in {"index", "call"} /\ st.dst = n

\* The reference n is used after statement k, before being bound again.
LiveAfter(P, k, n) ==
    \E j \in (k + 1)..Len(P) :
        /\ n \in P[j].uses
        /\ \A m \in (k + 1)..(j - 1) : ~Binds(P[m], n)

\* The references that stay live once the current statement is done.
KeepLive(r) == Restrict(r, {n \in DOMAIN r : LiveAfter(Program, pc, n)})

\* The end hi of the range lo..hi a statement indexes with.
Hi(st) ==
    CASE st.hiKind = "lit" -> st.hi
      [] st.hiKind = "var" -> nums[st.hiVar]
      [] OTHER -> Len(env[st.var])

Without(f, x) == Restrict(f, DOMAIN f \ {x})

\* let s = String::from(..): bind (or overwrite) a string.
StringFrom ==
    /\ At("from")
    /\ env' = (Cur.var :> Cur.lit) @@ env
    /\ pc' = pc + 1
    /\ refs' = KeepLive(refs)
    /\ UNCHANGED <<prog, nums, frame, res, panicked>>

\* s.clear(): truncate to length 0.
Clear ==
    /\ At("clear")
    /\ env' = [env EXCEPT ![Cur.var] = <<>>]
    /\ pc' = pc + 1
    /\ refs' = KeepLive(refs)
    /\ UNCHANGED <<prog, nums, frame, res, panicked>>

\* s.push_str(lit): append.
PushStr ==
    /\ At("push_str")
    /\ env' = [env EXCEPT ![Cur.var] = @ \o Cur.lit]
    /\ pc' = pc + 1
    /\ refs' = KeepLive(refs)
    /\ UNCHANGED <<prog, nums, frame, res, panicked>>

\* change(&mut s): the callee appends through the mutable reference.
Change ==
    /\ At("change")
    /\ env' = [env EXCEPT ![Cur.var] = change(@)]
    /\ pc' = pc + 1
    /\ refs' = KeepLive(refs)
    /\ UNCHANGED <<prog, nums, frame, res, panicked>>

\* let x = &s[lo..hi]: a view of start lo and length hi - lo; an index past
\* the end panics.
Slice ==
    /\ At("index")
    /\ IF Cur.lo <= Hi(Cur) /\ Hi(Cur) <= Len(env[Cur.var])
       THEN /\ refs' = KeepLive((Cur.dst :> View(Cur.var, Cur.lo, Hi(Cur) - Cur.lo, Cur.mut))
                                @@ refs)
            /\ pc' = pc + 1
            /\ UNCHANGED panicked
       ELSE /\ panicked' = TRUE
            /\ UNCHANGED <<pc, refs>>
    /\ UNCHANGED <<prog, env, nums, frame, res>>

\* let len = s.len()
StrLen ==
    /\ At("len")
    /\ nums' = (Cur.dst :> (IF Cur.fn = "calculate_length_ref"
                            THEN calculate_length_ref(env[Cur.var])
                            ELSE Len(env[Cur.var]))) @@ nums
    /\ pc' = pc + 1
    /\ refs' = KeepLive(refs)
    /\ UNCHANGED <<prog, env, frame, res, panicked>>

\* println!: reads its arguments.
Println ==
    /\ At("print")
    /\ pc' = pc + 1
    /\ refs' = KeepLive(refs)
    /\ UNCHANGED <<prog, env, nums, frame, res, panicked>>

\* let s2 = s1: the value moves, the source binding is no longer usable.
MoveString ==
    /\ At("move")
    /\ LET v == env[Cur.var]
           moved == CASE Cur.fn = "takes_and_gives_back" -> takes_and_gives_back(v)
                      [] Cur.fn = "calculate_length" -> calculate_length(v)[1]
                      [] OTHER -> v
       IN  /\ env' = (Cur.dst :> moved) @@ Without(env, Cur.var)
           /\ nums' = IF Cur.fn = "calculate_length"
                      THEN ("len" :> calculate_length(v)[2]) @@ nums
                      ELSE nums
    /\ pc' = pc + 1
    /\ refs' = KeepLive(refs)
    /\ UNCHANGED <<prog, frame, res, panicked>>

\* let s2 = s1.clone(): a deep copy, both bindings stay usable.
CloneString ==
    /\ At("clone")
    /\ env' = (Cur.dst :> env[Cur.var]) @@ env
    /\ pc' = pc + 1
    /\ refs' = KeepLive(refs)
    /\ UNCHANGED <<prog, nums, frame, res, panicked>>

\* takes_ownership(s): the value moves into the callee and is dropped there.
takes_ownership ==
    /\ At("take")
    /\ env' = Without(env, Cur.var)
    /\ pc' = pc + 1
    /\ refs' = KeepLive(refs)
    /\ UNCHANGED <<prog, nums, frame, res, panicked>>

\* let x = 5
IntLet ==
    /\ At("int")
    /\ nums' = (Cur.var :> Cur.n) @@ nums
    /\ pc' = pc + 1
    /\ refs' = KeepLive(refs)
    /\ UNCHANGED <<prog, env, frame, res, panicked>>

\* let y = x, makes_copy(x): integers are Copy, x stays usable.
makes_copy ==
    /\ At("copy")
    /\ nums' = IF Cur.dst = "_" THEN nums ELSE (Cur.dst :> nums[Cur.var]) @@ nums
    /\ pc' = pc + 1
    /\ refs' = KeepLive(refs)
    /\ UNCHANGED <<prog, env, frame, res, panicked>>

\* }: the binding goes out of scope and its value is dropped.
Drop ==
    /\ At("end_scope")
    /\ env' = Without(env, Cur.var)
    /\ pc' = pc + 1
    /\ refs' = KeepLive(refs)
    /\ UNCHANGED <<prog, nums, frame, res, panicked>>

\* assert_eq!(slice, &[2, 3]): panics when the two differ.
AssertEqual ==
    /\ At("assert_eq")
    /\ IF as_bytes(refs[Cur.var]) = Cur.lit
       THEN pc' = pc + 1 /\ UNCHANGED panicked
       ELSE panicked' = TRUE /\ UNCHANGED pc
    /\ refs' = KeepLive(refs)
    /\ UNCHANGED <<prog, env, nums, frame, res>>

\* A scanner is called on &var[lo..hi]: the callee borrows the range.
CallScanner ==
    /\ At("call")
    /\ IF Cur.lo <= Hi(Cur) /\ Hi(Cur) <= Len(env[Cur.var])
       THEN /\ frame' = NewFrame(Cur.fn, View(Cur.var, Cur.lo, Hi(Cur) - Cur.lo, FALSE),
                                 Cur.dst)
            /\ UNCHANGED panicked
       ELSE /\ panicked' = TRUE
            /\ UNCHANGED frame
    /\ UNCHANGED <<prog, pc, env, nums, refs, res>>

\* The scanner returns: the caller binds the result (let word = ..) or
\* drops it (first_world_with_slice(&s);).
Return ==
    /\ prog # "test" /\ frame.pc = "ret"
    /\ nums' = IF frame.fn = "first_word" /\ frame.dst # "_"
               THEN (frame.dst :> frame.off) @@ nums
               ELSE nums
    /\ refs' = IF frame.fn # "first_word" /\ frame.dst # "_"
               THEN KeepLive((frame.dst :> frame.view) @@ refs)
               ELSE KeepLive(refs)
    /\ res' = [res EXCEPT ![frame.fn] = Completed(frame)]
    /\ frame' = NoFrame
    /\ pc' = pc + 1
    /\ UNCHANGED <<prog, env, panicked>>

\* ----------------------------------------------------------------- driver
\* Calls of the scanners on arbitrary strings: the &String scanners get the
\* whole string, the &str scanner any range lo..hi of it.
TestCall ==
    /\ prog = "test" /\ frame = NoFrame
    /\ \E fn \in Scanners, lo \in 0..Len(env["s"]), hi \in 0..Len(env["s"]) :
          /\ lo <= hi
          /\ fn # "first_world_with_slice_str" => (lo = 0 /\ hi = Len(env["s"]))
          /\ frame' = NewFrame(fn, View("s", lo, hi - lo, FALSE), "_")
    /\ UNCHANGED <<prog, pc, env, nums, refs, res, panicked>>

\* The driver takes the returned value; the scanner's frame is gone.
TestReturn ==
    /\ prog = "test" /\ frame.pc = "ret"
    /\ res' = [res EXCEPT ![frame.fn] = Completed(frame)]
    /\ frame' = NoFrame
    /\ UNCHANGED <<prog, pc, env, nums, refs, panicked>>

Init ==
    /\ prog \in {"test", "slice", "main"}
    /\ pc = 1
    /\ IF prog = "test" THEN \E b \in Inputs : env = ("s" :> b) ELSE env = <<>>
    /\ nums = <<>>
    /\ refs = <<>>
    /\ frame = NoFrame
    /\ res = [fn \in Scanners |-> NoRes]
    /\ panicked = FALSE

Next ==
    \/ first_word
    \/ first_world_with_slice
    \/ first_world_with_slice_str
    \/ TestCall
    \/ TestReturn
    \/ StringFrom
    \/ Clear
    \/ PushStr
    \/ Change
    \/ Slice
    \/ StrLen
    \/ Println
    \/ MoveString
    \/ CloneString
    \/ takes_ownership
    \/ IntLet
    \/ makes_copy
    \/ Drop
    \/ AssertEqual
    \/ CallScanner
    \/ Return

Spec == Init /\ [][Next]_vars

\* Execution is single-threaded and synchronous: a step that can be taken is
\* taken.
FairSpec == Spec /\ WF_vars(Next)

\* ================================================================ claims
\* The delimiter of the specification: the space byte.
Delimiter == 32

\* A scanner has just returned.
Returned(fn) == frame.fn = fn /\ frame.pc = "ret"
ExtractorReturned ==
    Returned("first_world_with_slice") \/ Returned("first_world_with_slice_str")

HasDelimiter(b) == \E k \in 1..Len(b) : b[k] = Delimiter

\* The zero-based index of the leftmost delimiter of b, Len(b) without one.
LeftmostDelimiter(b) ==
    IF HasDelimiter(b)
    THEN (CHOOSE k \in 1..Len(b) : b[k] = Delimiter /\ \A j \in 1..(k - 1) : b[j] # Delimiter) - 1
    ELSE Len(b)

\* C1: first_word returns the length of the delimiter-free prefix: for every
\* split of its argument into prefix + space + suffix where prefix holds no
\* space, the value returned is Len(prefix).
C1_FirstMatch ==
    Returned("first_word") =>
        LET b == as_bytes(frame.arg)
        IN  \A n \in 0..Len(b) :
                (/\ n < Len(b)
                 /\ b[n + 1] = Delimiter
                 /\ \A k \in 1..n : b[k] # Delimiter) => frame.off = n

\* first_word has returned on prefix + space + suffix with a non-empty prefix
\* and a further space in the suffix.
C1_Witness ==
    /\ Returned("first_word")
    /\ LET b == as_bytes(frame.arg)
       IN  /\ Len(b) >= 3
           /\ b[1] # Delimiter /\ b[2] = Delimiter /\ b[3] = Delimiter
           /\ frame.off = 1

\* C2: on an argument without a space first_word returns its length.
C2_AbsentGivesLength ==
    (Returned("first_word") /\ ~HasDelimiter(as_bytes(frame.arg))) =>
        frame.off = Len(as_bytes(frame.arg))

\* first_word has returned the length of a non-empty string without space.
C2_Witness ==
    /\ Returned("first_word")
    /\ ~HasDelimiter(as_bytes(frame.arg))
    /\ Len(as_bytes(frame.arg)) >= 2
    /\ frame.off = Len(as_bytes(frame.arg))

\* The result a completed call of fn recorded for the very argument the
\* running call has, the bytes it spans unchanged since.
SameArgument(fn) ==
    /\ res[fn].valid
    /\ res[fn].arg = frame.arg
    /\ res[fn].bytes = as_bytes(frame.arg)

\* C3: both extractors return the view [0, offset) of their argument, where
\* offset is the index of the leftmost space, or the length without one: the
\* bytes before the leftmost space, nothing when the argument starts with a
\* space, everything when it holds none; offset is what first_word returned
\* for the same argument.
C3_TokenSpansUpToOffset ==
    ExtractorReturned =>
        LET b == as_bytes(frame.arg)
            offset == LeftmostDelimiter(b)
        IN  /\ frame.view.src = frame.arg.src
            /\ frame.view.start = frame.arg.start
            /\ frame.view.len = offset
            /\ as_bytes(frame.view) = SubSeq(b, 1, offset)
            /\ (Len(b) > 0 /\ b[1] = Delimiter) => as_bytes(frame.view) = <<>>
            /\ ~HasDelimiter(b) => as_bytes(frame.view) = b
            /\ SameArgument("first_word") => frame.view.len = res["first_word"].off

\* first_world_with_slice has returned a non-empty token that ends before a
\* space, after first_word ran on the same argument.
C3_Witness ==
    /\ Returned("first_world_with_slice")
    /\ SameArgument("first_word")
    /\ HasDelimiter(as_bytes(frame.arg))
    /\ frame.view.len > 0
    /\ frame.view.len < frame.arg.len

\* What holds of first_word while it runs: no index is read twice, every
\* index read is inside the argument, nothing panics, and the value returned
\* is an index of the argument or its length (0 for the empty argument).
C4_ScanInvariant ==
    frame.fn = "first_word" =>
        /\ ~panicked
        /\ frame.i \in 0..frame.arg.len
        /\ \A j, k \in 1..Len(frame.reads) : j # k => frame.reads[j] # frame.reads[k]
        /\ \A j \in 1..Len(frame.reads) : frame.reads[j] \in 0..(frame.arg.len - 1)
        /\ frame.pc = "ret" => frame.off \in 0..frame.arg.len
        /\ (frame.pc = "ret" /\ frame.arg.len = 0) => frame.off = 0

\* C4: first_word is total: every call returns, having read each byte of its
\* argument at most once and raised no error; it returns 0 on the empty
\* string.
C4_Total ==
    /\ []C4_ScanInvariant
    /\ (frame.fn = "first_word" /\ frame.pc = "loop") ~> Returned("first_word")

\* first_word has returned after reading every byte of a string of three
\* bytes or more.
C4_Witness ==
    /\ Returned("first_word")
    /\ frame.arg.len >= 3
    /\ Len(frame.reads) = frame.arg.len

\* C5: a second call of an extractor on the same unmodified argument returns
\* a view with the start, length and content of the first.
C5_Idempotent ==
    \A fn \in {"first_world_with_slice", "first_world_with_slice_str"} :
        (Returned(fn) /\ SameArgument(fn)) =>
            /\ frame.view.src = res[fn].view.src
            /\ frame.view.start = res[fn].view.start
            /\ frame.view.len = res[fn].view.len
            /\ as_bytes(frame.view) =
                   SubSeq(res[fn].bytes, res[fn].view.start - res[fn].arg.start + 1,
                          res[fn].view.start - res[fn].arg.start + res[fn].view.len)

\* first_world_with_slice_str has returned a second time on the same range,
\* one with bytes after the first space.
C5_Witness ==
    /\ Returned("first_world_with_slice_str")
    /\ SameArgument("first_world_with_slice_str")
    /\ frame.view.len + 1 < frame.arg.len

\* C6: from the call of a scanner to the moment its result is taken no string
\* changes, and the scanner's frame is gone once the result is taken.
C6_PureRead ==
    [][ /\ (frame # NoFrame \/ frame' # NoFrame) => env' = env
        /\ frame.pc = "ret" => frame' = NoFrame ]_vars

\* An extractor has found a space in its argument and returned.
C6_Witness ==
    /\ ExtractorReturned
    /\ HasDelimiter(as_bytes(frame.arg))
    /\ env[frame.arg.src] # <<>>

\* The caller is about to execute the statement of source line n.
AtLine(n) == Running /\ Cur.line = n

\* C7: in slice() the index word is 5 and within s right after first_word
\* returns, and is still 5 once s.clear() has emptied s: the relations
\* word <= len(s) and word = first_word(s) no longer hold there.
C7_IndexOutlivesString ==
    prog = "slice" =>
        /\ AtLine(8) =>
              /\ nums["word"] = 5
              /\ env["s"] = HelloWorld
              /\ nums["word"] <= Len(env["s"])
              /\ nums["word"] = LeftmostDelimiter(env["s"])
        /\ AtLine(12) =>
              /\ nums["word"] = 5
              /\ Len(env["s"]) = 0
              /\ ~(nums["word"] <= Len(env["s"]))
              /\ nums["word"] # LeftmostDelimiter(env["s"])

\* slice() is about to print word, after s.clear().
C7_Witness ==
    /\ prog = "slice"
    /\ AtLine(12)
    /\ nums["word"] = 5
    /\ env["s"] = <<>>

\* The live references into the string bound to v.
LiveBorrows(v) == {n \in DOMAIN refs : refs[n].src = v}

\* The strings a statement mutates, moves, drops or borrows mutably.
Mutated(st) ==
    IF \/ st.op \in {"clear", "push_str", "change", "move", "take", "end_scope"}
       \/ st.op = "from"
       \/ (st.op = "index" /\ st.mut)
    THEN {st.var}
    ELSE {}

\* C8: along slice() and main() a string is mutated, moved, rebound, dropped
\* or mutably borrowed only when no reference into it is live; a live mutable
\* reference is the only reference to its string, also while a scanner
\* borrows it; every live view lies inside a string that is still bound; the
\* view first_world_with_slice(&s) returned is dead when s.clear() runs.
C8_BorrowDiscipline ==
    prog \in {"slice", "main"} =>
        /\ \A n \in DOMAIN refs :
              /\ refs[n].src \in DOMAIN env
              /\ refs[n].start + refs[n].len <= Len(env[refs[n].src])
              /\ refs[n].mut =>
                    /\ LiveBorrows(refs[n].src) = {n}
                    /\ frame.arg.src # refs[n].src
        /\ Running => \A v \in Mutated(Cur) : LiveBorrows(v) = {}
        /\ AtLine(49) => \A n \in DOMAIN refs : refs[n].src # "s"

\* slice() is about to clear s, after first_world_with_slice(&s) returned.
C8_Witness ==
    /\ prog = "slice"
    /\ AtLine(49)
    /\ res["first_world_with_slice"].valid
    /\ res["first_world_with_slice"].arg = View("s", 0, 11, FALSE)

\* C9: on the same argument first_world_with_slice and
\* first_world_with_slice_str return the same view, and the length of that
\* view is the index first_word returns.
C9_ExtractorsAgree ==
    /\ (Returned("first_world_with_slice") /\ SameArgument("first_world_with_slice_str")) =>
          /\ frame.view = res["first_world_with_slice_str"].view
          /\ as_bytes(frame.view) = as_bytes(res["first_world_with_slice_str"].view)
    /\ (Returned("first_world_with_slice_str") /\ SameArgument("first_world_with_slice")) =>
          /\ frame.view = res["first_world_with_slice"].view
          /\ as_bytes(frame.view) = as_bytes(res["first_world_with_slice"].view)
    /\ (ExtractorReturned /\ SameArgument("first_word")) =>
          frame.view.len = res["first_word"].off
    /\ \A fn \in {"first_world_with_slice", "first_world_with_slice_str"} :
          (Returned("first_word") /\ SameArgument(fn)) => frame.off = res[fn].view.len

\* first_world_with_slice_str has returned on a string without space that
\* first_world_with_slice and first_word were called on before.
C9_Witness ==
    /\ Returned("first_world_with_slice_str")
    /\ SameArgument("first_world_with_slice")
    /\ SameArgument("first_word")
    /\ frame.arg.len >= 2
    /\ ~HasDelimiter(as_bytes(frame.arg))

\* The view of the whole string bound to v.
Whole(v) == View(v, 0, Len(env[v]), FALSE)

\* C10: first_word returns an index within its argument with no space below
\* it; the token an extractor returns holds no space and is a prefix of the
\* argument; first_world_with_slice_str on a prefix of s that reaches the
\* leftmost space of s returns the token an extractor returns on the whole
\* of s, as at the call sites of slice().
C10_BoundsAndDelimiterFree ==
    /\ Returned("first_word") =>
          LET b == as_bytes(frame.arg)
          IN  /\ frame.off \in 0..Len(b)
              /\ \A k \in 1..frame.off : b[k] # Delimiter
    /\ ExtractorReturned =>
          LET b == as_bytes(frame.arg)
              token == as_bytes(frame.view)
          IN  /\ ~HasDelimiter(token)
              /\ Len(token) <= Len(b)
              /\ token = SubSeq(b, 1, Len(token))
              /\ frame.view.src = frame.arg.src
              /\ frame.view.start = frame.arg.start
    /\ \A fn \in {"first_world_with_slice", "first_world_with_slice_str"} :
          (/\ Returned("first_world_with_slice_str")
           /\ frame.arg.start = 0
           /\ frame.arg.len >= LeftmostDelimiter(env[frame.arg.src])
           /\ res[fn].valid
           /\ res[fn].arg = Whole(frame.arg.src)
           /\ res[fn].bytes = env[frame.arg.src]) =>
              /\ frame.view = res[fn].view
              /\ as_bytes(frame.view) = as_bytes(res[fn].view)
    /\ \A n \in {57, 59, 63, 68, 70, 74} :
          (prog = "slice" /\ AtLine(n)) => as_bytes(refs["word"]) = Hello

\* first_world_with_slice_str has returned on a proper prefix of s that ends
\* at, or one byte after, the leftmost space of s, after a call on all of s.
C10_Witness ==
    /\ Returned("first_world_with_slice_str")
    /\ frame.arg.start = 0
    /\ frame.arg.len < Len(env[frame.arg.src])
    /\ HasDelimiter(env[frame.arg.src])
    /\ frame.arg.len >= LeftmostDelimiter(env[frame.arg.src])
    /\ frame.view.len > 0
    /\ res["first_world_with_slice_str"].valid
    /\ res["first_world_with_slice_str"].arg = Whole(frame.arg.src)
====
